---- MODULE Spec2Model ----
(***************************************************************************)
(* Model of Bot.py: a Telegram bot that records stock holdings in a        *)
(* PostgreSQL table and reports profit and loss from live quotes.          *)
(*                                                                         *)
(* A message text is a sequence of symbols; the symbol " " is whitespace   *)
(* and every other symbol stands for one non-whitespace character (or, for *)
(* command names and button words, one run of them).  Numbers are          *)
(* integers: a Python float is modelled by the integer it holds, a         *)
(* PostgreSQL REAL by the nearest integer that fits a 24-bit significand.  *)
(***************************************************************************)
EXTENDS Integers, Sequences, FiniteSets

VARIABLES holdings, hs

vars == <<holdings, hs>>

(* ------------------------------ inputs --------------------------------- *)

Users == {1, 2}

Handlers == {"t1", "t2"}

MaxPrice == 2

\* Close prices the quote provider may return.
Prices == 2..MaxPrice

\* Outcomes of stock.history(period="1d"): it raises, it returns an empty
\* frame, or it returns a frame whose last Close is a price.
QuoteOutcomes ==
    {[kind |-> "raise", close |-> 0], [kind |-> "empty", close |-> 0]}
        \cup {[kind |-> "close", close |-> p] : p \in Prices}

BtnAdd == <<"+", " ", "Add">>

BtnPortfolio == <<"#", " ", "Portfolio">>

BtnHelp == <<"?", " ", "Help">>

Texts ==
    { <<"/add", " ", "a", " ", "1", " ", "5">>,
      <<"/add", " ", " ", "b", " ", "-", "1", " ", "5">>,
      <<"/add", " ", "A", " ", "1", "6", "7", "7", "7", "2", "1", "7", " ", "0">>,
      <<"/add", " ", "a", " ", "1">>,
      <<"/add", " ", "a", " ", "1", " ", "5", " ", "9">>,
      <<"/add", " ", "a", " ", "x", " ", "5">>,
      <<"/add", " ", "a", " ", "1", " ", "1", "-">>,
      <<"/portfolio">>,
      <<"/help">>,
      BtnAdd }

(* ------------------------- pure functions ------------------------------ *)

\* str.split(): the maximal runs of non-whitespace symbols, in order.
RECURSIVE SplitFrom(_, _, _)
SplitFrom(text, i, cur) ==
    IF i > Len(text)
    THEN IF cur = <<>> THEN <<>> ELSE <<cur>>
    ELSE IF text[i] = " "
         THEN IF cur = <<>>
              THEN SplitFrom(text, i + 1, <<>>)
              ELSE <<cur>> \o SplitFrom(text, i + 1, <<>>)
         ELSE SplitFrom(text, i + 1, Append(cur, text[i]))

Split(text) == SplitFrom(text, 1, <<>>)

UpperChar(c) ==
    CASE c = "a" -> "A"
      [] c = "b" -> "B"
      [] OTHER -> c

UpperMissing(s) == s

\* str.upper()
Upper(s) == [i \in 1..Len(s) |-> UpperChar(s[i])]

Digits == {"0", "1", "2", "3", "4", "5", "6", "7", "8", "9"}

DigitVal(c) ==
    CASE c = "0" -> 0 [] c = "1" -> 1 [] c = "2" -> 2 [] c = "3" -> 3
      [] c = "4" -> 4 [] c = "5" -> 5 [] c = "6" -> 6 [] c = "7" -> 7
      [] c = "8" -> 8 [] c = "9" -> 9

RECURSIVE DigitsVal(_)
DigitsVal(s) ==
    IF s = <<>> THEN 0
    ELSE 10 * DigitsVal(SubSeq(s, 1, Len(s) - 1)) + DigitVal(s[Len(s)])

\* float(s) on a token of digits with an optional leading minus sign;
\* any other token raises ValueError.
ParseFloat(tok) ==
    LET neg  == Len(tok) >= 1 /\ tok[1] = "-"
        body == IF neg THEN SubSeq(tok, 2, Len(tok)) ELSE tok
    IN  IF body # <<>> /\ \A i \in 1..Len(body) : body[i] \in Digits
        THEN [ok |-> TRUE,
              val |-> IF neg THEN 0 - DigitsVal(body) ELSE DigitsVal(body)]
        ELSE [ok |-> FALSE, val |-> 0]

Abs(x) == IF x < 0 THEN 0 - x ELSE x

Significand == 16777216

\* Spacing of the single-precision values around magnitude a.
RECURSIVE Ulp(_)
Ulp(a) == IF a < Significand THEN 1 ELSE 2 * Ulp(a \div 2)

\* A double bound to a REAL column: rounded to the nearest value with a
\* 24-bit significand, ties to even.
ToReal(x) ==
    LET a == Abs(x)
        u == Ulp(a)
        q == a \div u
        r == a % u
        m == IF 2 * r < u THEN q
             ELSE IF 2 * r > u THEN q + 1
             ELSE IF q % 2 = 0 THEN q ELSE q + 1
    IN  IF x < 0 THEN 0 - (m * u) ELSE m * u

HasKey(tbl, u, t) == \E r \in tbl : r.user_id = u /\ r.ticker = t

\* INSERT ... ON CONFLICT (user_id, ticker) DO UPDATE SET quantity, buy_price
Upsert(tbl, u, t, q, p) ==
    IF HasKey(tbl, u, t)
    THEN { IF r.user_id = u /\ r.ticker = t
           THEN [r EXCEPT !.quantity = q, !.buy_price = p]
           ELSE r : r \in tbl }
    ELSE tbl \cup {[user_id |-> u, ticker |-> t, quantity |-> q, buy_price |-> p]}

\* SELECT ticker, quantity, buy_price FROM holdings WHERE user_id = u
RowsOf(tbl, u) ==
    { [ticker |-> r.ticker, quantity |-> r.quantity, buy_price |-> r.buy_price] :
        r \in { x \in tbl : x.user_id = u } }

\* The orders in which a result set may be returned (no ORDER BY).
Orders(S) ==
    { s \in [1..Cardinality(S) -> S] : \A i, j \in 1..Cardinality(S) : s[i] = s[j] => i = j }

\* current_price chosen from the outcome of one quote fetch.
CurrentPrice(outcome) == IF outcome.kind \in {"raise", "empty"} THEN 0 ELSE outcome.close

\* Python's a / b, in whole units: ZeroDivisionError when b is 0.
Div(a, b) ==
    IF b = 0 THEN [raised |-> TRUE, val |-> 0] ELSE [raised |-> FALSE, val |-> a \div b]

ProfitPctNoGuard(num, den) ==
    [raised |-> Div(num, den).raised, val |-> Div(num, den).val * 100]

\* (num / den * 100) if den != 0 else 0, the quotient in whole units.
ProfitPct(num, den) ==
    IF den # 0
    THEN [raised |-> Div(num, den).raised, val |-> Div(num, den).val * 100]
    ELSE [raised |-> FALSE, val |-> 0]

\* One iteration of the report loop for a row and its fetched price.
Line(row, current_price) ==
    LET cost   == row.quantity * row.buy_price
        value  == row.quantity * current_price
        profit == value - cost
    IN  [ticker |-> row.ticker, qty |-> row.quantity, buy_price |-> row.buy_price,
         current_price |-> current_price, cost |-> cost, value |-> value,
         profit |-> profit, profit_pct |-> ProfitPct(profit, cost).val,
         raised |-> ProfitPct(profit, cost).raised]

(* ------------------------------ state ---------------------------------- *)

Idle ==
    [pc |-> "idle", user |-> 0, text |-> <<>>, handler |-> "none",
     ticker |-> <<>>, qty |-> 0, price |-> 0,
     rows |-> <<>>, quotes |-> <<>>, lines |-> <<>>,
     total_cost |-> 0, total_value |-> 0, total_profit_pct |-> 0,
     reply |-> "none", err |-> "none"]

Init ==
    /\ holdings = {}
    /\ hs = [h \in Handlers |-> Idle]

\* The event loop runs one coroutine at a time; a coroutine keeps the thread
\* until it awaits.  stock.history() is an ordinary call, so a handler inside
\* the report loop keeps the thread.
LoopFree(h) == \A g \in Handlers \ {h} : hs[g].pc # "history"

\* The handler the dispatcher selects for a text.
Route(text) ==
    LET args == Split(text)
    IN  IF args # <<>> /\ args[1] = <<"/add">> THEN "add"
        ELSE IF args # <<>> /\ args[1] = <<"/portfolio">> THEN "portfolio"
        ELSE IF args # <<>> /\ args[1] = <<"/help">> THEN "help"
        ELSE IF text = BtnAdd THEN "add"
        ELSE IF text = BtnPortfolio THEN "portfolio"
        ELSE IF text = BtnHelp THEN "help"
        ELSE "unknown"

AddEntryArityAtLeast(u, text) ==
    LET args == Split(text)
        msg  == [Idle EXCEPT !.user = u, !.text = text, !.handler = "add"]
    IN  IF Len(args) < 4
        THEN [msg EXCEPT !.pc = "answer", !.reply = "usage"]
        ELSE IF ~ParseFloat(args[3]).ok \/ ~ParseFloat(args[4]).ok
             THEN [msg EXCEPT !.pc = "answer", !.reply = "notnum"]
             ELSE [msg EXCEPT !.pc = "acquire", !.ticker = args[2],
                              !.qty = ParseFloat(args[3]).val,
                              !.price = ParseFloat(args[4]).val]

AddEntryNoParseCheck(u, text) ==
    LET args == Split(text)
        msg  == [Idle EXCEPT !.user = u, !.text = text, !.handler = "add"]
    IN  IF Len(args) # 4
        THEN [msg EXCEPT !.pc = "answer", !.reply = "usage"]
        ELSE [msg EXCEPT !.pc = "acquire", !.ticker = args[2],
                         !.qty = ParseFloat(args[3]).val,
                         !.price = ParseFloat(args[4]).val]

\* cmd_add up to its first await.
AddEntry(u, text) ==
    LET args == Split(text)
        msg  == [Idle EXCEPT !.user = u, !.text = text, !.handler = "add"]
    IN  IF Len(args) # 4
        THEN [msg EXCEPT !.pc = "answer", !.reply = "usage"]
        ELSE IF ~ParseFloat(args[3]).ok \/ ~ParseFloat(args[4]).ok
             THEN [msg EXCEPT !.pc = "answer", !.reply = "notnum"]
             ELSE [msg EXCEPT !.pc = "acquire", !.ticker = args[2],
                              !.qty = ParseFloat(args[3]).val,
                              !.price = ParseFloat(args[4]).val]

\* cmd_portfolio up to its first await.
PortfolioEntry(u, text) ==
    [Idle EXCEPT !.user = u, !.text = text, !.handler = "portfolio", !.pc = "acquire"]

\* cmd_help up to its first await.
HelpEntry(u, text) ==
    [Idle EXCEPT !.user = u, !.text = text, !.handler = "help",
                 !.pc = "answer", !.reply = "help"]

\* The handler's state when db_pool.acquire() or a statement raises: the
\* exception leaves the handler.
StorageError(s) == [s EXCEPT !.pc = "raised", !.err = "StorageError"]

AfterRowsNoEmptyCheck(s, rows) == [s EXCEPT !.rows = rows, !.pc = "history"]

\* cmd_portfolio from the rows read up to the first quote fetch or the
\* empty-portfolio answer.
AfterRows(s, rows) ==
    IF rows = <<>>
    THEN [s EXCEPT !.rows = rows, !.pc = "answer", !.reply = "empty"]
    ELSE [s EXCEPT !.rows = rows, !.pc = "history"]

\* The rest of the loop body after current_price is set, and after the last
\* row the totals and the header, up to await message.answer.
AfterPrice(s, outcome) ==
    LET row  == s.rows[Len(s.quotes) + 1]
        line == Line(row, CurrentPrice(outcome))
        tc   == s.total_cost + line.cost
        tv   == s.total_value + line.value
        s1   == [s EXCEPT !.quotes = Append(@, outcome), !.lines = Append(@, line),
                          !.total_cost = tc, !.total_value = tv]
    IN  IF line.raised
        THEN [s EXCEPT !.quotes = Append(@, outcome),
                       !.pc = "raised", !.err = "ZeroDivisionError"]
        ELSE IF Len(s1.quotes) < Len(s.rows)
        THEN s1
        ELSE IF ProfitPct(tv - tc, tc).raised
        THEN [s1 EXCEPT !.pc = "raised", !.err = "ZeroDivisionError"]
        ELSE [s1 EXCEPT !.total_profit_pct = ProfitPct(tv - tc, tc).val,
                        !.pc = "answer", !.reply = "report"]

AfterQuoteNoExcept(s, outcome) ==
    IF outcome.kind = "raise"
    THEN [s EXCEPT !.quotes = Append(@, outcome), !.pc = "raised", !.err = "QuoteFetchError"]
    ELSE AfterPrice(s, outcome)

\* The handler's state after stock.history() for the current row ends with
\* the given outcome; an exception is caught and logged.
AfterQuote(s, outcome) == AfterPrice(s, outcome)

(* ----------------------------- actions --------------------------------- *)

\* An update is polled and its handler runs up to its first await.
Dispatch(h, u, text) ==
    /\ hs[h].pc = "idle"
    /\ LoopFree(h)
    /\ Route(text) \in {"add", "portfolio", "help"}
    /\ hs' = [hs EXCEPT ![h] =
                CASE Route(text) = "add" -> AddEntry(u, text)
                  [] Route(text) = "portfolio" -> PortfolioEntry(u, text)
                  [] Route(text) = "help" -> HelpEntry(u, text)]
    /\ UNCHANGED holdings

\* async with db_pool.acquire() as conn, in cmd_add: a connection is
\* obtained (ok) or the pool raises.
AddAcquire(h, ok) ==
    /\ hs[h].pc = "acquire" /\ hs[h].handler = "add"
    /\ LoopFree(h)
    /\ hs' = [hs EXCEPT ![h] = IF ok THEN [@ EXCEPT !.pc = "execute"] ELSE StorageError(@)]
    /\ UNCHANGED holdings

\* await conn.execute(INSERT ... ON CONFLICT ...) and the pool release, up to
\* await message.answer; or the statement raises.
AddExecute(h, ok) ==
    /\ hs[h].pc = "execute" /\ hs[h].handler = "add"
    /\ LoopFree(h)
    /\ IF ok
       THEN /\ holdings' = Upsert(holdings, hs[h].user, Upper(hs[h].ticker),
                                  ToReal(hs[h].qty), ToReal(hs[h].price))
            /\ hs' = [hs EXCEPT ![h] = [@ EXCEPT !.pc = "answer", !.reply = "added"]]
       ELSE /\ hs' = [hs EXCEPT ![h] = StorageError(@)]
            /\ UNCHANGED holdings

\* async with db_pool.acquire() as conn, in cmd_portfolio.
PortfolioAcquire(h, ok) ==
    /\ hs[h].pc = "acquire" /\ hs[h].handler = "portfolio"
    /\ LoopFree(h)
    /\ hs' = [hs EXCEPT ![h] = IF ok THEN [@ EXCEPT !.pc = "execute"] ELSE StorageError(@)]
    /\ UNCHANGED holdings

\* rows = await conn.fetch(SELECT ...) and the pool release; or the statement
\* raises.
PortfolioFetch(h, ok) ==
    /\ hs[h].pc = "execute" /\ hs[h].handler = "portfolio"
    /\ LoopFree(h)
    /\ IF ok
       THEN \E rows \in Orders(RowsOf(holdings, hs[h].user)) :
              hs' = [hs EXCEPT ![h] = AfterRows(@, rows)]
       ELSE hs' = [hs EXCEPT ![h] = StorageError(@)]
    /\ UNCHANGED holdings

\* stock.history(period="1d") returns or raises for the current row.
PortfolioQuote(h, outcome) ==
    /\ hs[h].pc = "history"
    /\ hs' = [hs EXCEPT ![h] = AfterQuote(@, outcome)]
    /\ UNCHANGED holdings

\* await message.answer(...) completes and the handler returns.
Answer(h) ==
    /\ hs[h].pc = "answer"
    /\ LoopFree(h)
    /\ hs' = [hs EXCEPT ![h] = Idle]
    /\ UNCHANGED holdings

\* The dispatcher logs the exception that left the handler.
Raised(h) ==
    /\ hs[h].pc = "raised"
    /\ LoopFree(h)
    /\ hs' = [hs EXCEPT ![h] = Idle]
    /\ UNCHANGED holdings

Next ==
    \/ \E h \in Handlers, u \in Users, text \in Texts : Dispatch(h, u, text)
    \/ \E h \in Handlers, ok \in BOOLEAN : AddAcquire(h, ok)
    \/ \E h \in Handlers, ok \in BOOLEAN : AddExecute(h, ok)
    \/ \E h \in Handlers, ok \in BOOLEAN : PortfolioAcquire(h, ok)
    \/ \E h \in Handlers, ok \in BOOLEAN : PortfolioFetch(h, ok)
    \/ \E h \in Handlers, outcome \in QuoteOutcomes : PortfolioQuote(h, outcome)
    \/ \E h \in Handlers : Answer(h)
    \/ \E h \in Handlers : Raised(h)

Spec == Init /\ [][Next]_vars

TypeOK ==
    \A h \in Handlers :
        hs[h].pc \in {"idle", "acquire", "execute", "history", "answer", "raised"}

(* --------------------------- properties -------------------------------- *)

\* The step is handler h's INSERT ... ON CONFLICT statement completing.
Executed(h) ==
    /\ hs[h].handler = "add" /\ hs[h].pc = "execute"
    /\ hs'[h].pc = "answer"

RowsAt(tbl, u, t) == { r \in tbl : r.user_id = u /\ r.ticker = t }

KeyUnique ==
    \A r1, r2 \in holdings :
        (r1.user_id = r2.user_id /\ r1.ticker = r2.ticker) => r1 = r2

\* C1: the table never holds two rows for one (user_id, ticker), and after an
\* /add completes there is exactly one row for its user and ticker, carrying
\* the quantity and buy_price given in the command.
C1_OneRowCarryingGiven ==
    /\ []KeyUnique
    /\ [][\A h \in Handlers :
            Executed(h) =>
                /\ Cardinality(RowsAt(holdings', hs[h].user, Upper(hs[h].ticker))) = 1
                /\ \A r \in RowsAt(holdings', hs[h].user, Upper(hs[h].ticker)) :
                      r.quantity = hs[h].qty /\ r.buy_price = hs[h].price]_vars

\* C2: an /add for a ticker the user already holds leaves that row with the
\* quantity and buy_price of the later command.
C2_ReAddOverwrites ==
    [][\A h \in Handlers :
         (Executed(h) /\ HasKey(holdings, hs[h].user, Upper(hs[h].ticker))) =>
             \E r \in RowsAt(holdings', hs[h].user, Upper(hs[h].ticker)) :
                 r.quantity = hs[h].qty /\ r.buy_price = hs[h].price]_vars

WrongArity(s) == s.handler = "add" /\ Len(Split(s.text)) # 4

\* C3: an /add whose text is not exactly 4 tokens is answered with the usage
\* message and its handler never changes the table; the Add button text is
\* such a message.
C3_WrongArityUsage ==
    /\ [](\A h \in Handlers :
            WrongArity(hs[h]) => hs[h].pc = "answer" /\ hs[h].reply = "usage")
    /\ [][\A h \in Handlers :
            (hs'[h] # hs[h] /\ (WrongArity(hs[h]) \/ WrongArity(hs'[h])))
                => holdings' = holdings]_vars
    /\ [][\A h \in Handlers :
            hs'[h].text = BtnAdd => WrongArity(hs'[h])]_vars

C3_Witness ==
    \E h, g \in Handlers :
        /\ hs[h].text = BtnAdd /\ hs[h].pc = "answer" /\ hs[h].reply = "usage"
        /\ Len(Split(hs[g].text)) = 3 /\ hs[g].pc = "answer" /\ hs[g].reply = "usage"
        /\ holdings # {}

NotNumber(s) ==
    /\ s.handler = "add" /\ Len(Split(s.text)) = 4
    /\ (~ParseFloat(Split(s.text)[3]).ok \/ ~ParseFloat(Split(s.text)[4]).ok)

\* C4: an /add with 3 arguments whose quantity or price is not a number is
\* answered with the not-a-number message and its handler never changes the
\* table.
C4_NotNumberAnswered ==
    /\ [](\A h \in Handlers :
            NotNumber(hs[h]) => hs[h].pc = "answer" /\ hs[h].reply = "notnum")
    /\ [][\A h \in Handlers :
            (hs'[h] # hs[h] /\ (NotNumber(hs[h]) \/ NotNumber(hs'[h])))
                => holdings' = holdings]_vars

C4_Witness ==
    \E h, g \in Handlers :
        /\ NotNumber(hs[h]) /\ ~ParseFloat(Split(hs[h].text)[3]).ok /\ hs[h].reply = "notnum"
        /\ NotNumber(hs[g]) /\ ~ParseFloat(Split(hs[g].text)[4]).ok /\ hs[g].reply = "notnum"
        /\ holdings # {}

\* C5: an /add or /portfolio that finds the store unreachable still ends with
\* a reply to the user.
C5_StorageErrorReplied ==
    \A h \in Handlers :
        (hs[h].handler \in {"add", "portfolio"} /\ hs[h].err = "StorageError")
            => hs[h].pc = "answer" /\ hs[h].reply # "none"

AfterRead(s) == s.handler = "portfolio" /\ s.pc \in {"history", "answer", "raised"} /\ s.err # "StorageError"

\* C6: a /portfolio whose read returns no rows is answered with the
\* empty-portfolio message, having made no quote fetch.
C6_EmptyNoFetch ==
    \A h \in Handlers :
        (AfterRead(hs[h]) /\ hs[h].rows = <<>>)
            => hs[h].pc = "answer" /\ hs[h].reply = "empty" /\ hs[h].quotes = <<>>

C6_Witness ==
    \E h, g \in Handlers :
        /\ hs[h].handler = "portfolio" /\ hs[h].reply = "empty"
        /\ RowsOf(holdings, hs[h].user) = {}
        /\ hs[g].handler = "portfolio" /\ hs[g].reply = "report"

\* C7: a quote fetch that raises or returns nothing makes current_price 0 for
\* that row only and never leaves the handler as an exception; every row
\* read gets a fetch and a line, in the order read.
C7_QuoteFailureIsZero ==
    \A h \in Handlers :
        AfterRead(hs[h]) =>
            /\ hs[h].err # "QuoteFetchError"
            /\ Len(hs[h].lines) = Len(hs[h].quotes)
            /\ Len(hs[h].lines) <= Len(hs[h].rows)
            /\ (hs[h].reply = "report" => Len(hs[h].lines) = Len(hs[h].rows))
            /\ (hs[h].pc = "history" => Len(hs[h].lines) < Len(hs[h].rows))
            /\ \A i \in 1..Len(hs[h].lines) :
                  /\ hs[h].lines[i].ticker = hs[h].rows[i].ticker
                  /\ hs[h].lines[i].qty = hs[h].rows[i].quantity
                  /\ hs[h].lines[i].buy_price = hs[h].rows[i].buy_price
                  /\ hs[h].lines[i].current_price =
                        (IF hs[h].quotes[i].kind = "close" THEN hs[h].quotes[i].close ELSE 0)

C7_Witness ==
    \E h, g \in Handlers :
        /\ hs[h].reply = "report" /\ Len(hs[h].rows) = 2
        /\ hs[h].quotes[1].kind = "raise" /\ hs[h].quotes[2].kind = "close"
        /\ hs[h].lines[2].current_price > 0
        /\ hs[g].reply = "report" /\ Len(hs[g].rows) = 2
        /\ hs[g].quotes[1].kind = "close" /\ hs[g].quotes[2].kind = "empty"

\* C8: while one user's /portfolio is inside a quote fetch, the event loop
\* can still run a handler for another user's message, whether newly arrived
\* or waiting to resume.
C8_HangStallsOnlyOneRequest ==
    \A h, g \in Handlers :
        (hs[h].pc = "history" /\ g # h /\ hs[g].user # hs[h].user) => LoopFree(g)

Lowercase == {"a", "b"}

NoLower(t) == \A i \in 1..Len(t) : t[i] \notin Lowercase

FoldChar(c) == CASE c = "A" -> "a" [] c = "B" -> "b" [] OTHER -> c

SameButCase(s, t) == Len(s) = Len(t) /\ \A i \in 1..Len(s) : FoldChar(s[i]) = FoldChar(t[i])

\* C9: every stored ticker is uppercase, /portfolio reads uppercase tickers,
\* one user never has two rows whose tickers differ only in case, and a
\* completed /add leaves a row under the uppercase form of its argument.
C9_TickersUppercase ==
    /\ [](\A r \in holdings : NoLower(r.ticker))
    /\ [](\A r1, r2 \in holdings :
            (r1.user_id = r2.user_id /\ SameButCase(r1.ticker, r2.ticker)) => r1 = r2)
    /\ [](\A h \in Handlers : \A i \in 1..Len(hs[h].rows) : NoLower(hs[h].rows[i].ticker))
    /\ [][\A h \in Handlers :
            Executed(h) =>
                \E r \in holdings' :
                    /\ r.user_id = hs[h].user /\ SameButCase(r.ticker, hs[h].ticker)
                    /\ NoLower(r.ticker)]_vars

C9_Witness ==
    \E h, g \in Handlers :
        /\ hs[h].handler = "add" /\ hs[h].reply = "added" /\ hs[h].ticker = <<"a">>
        /\ hs[g].handler = "portfolio" /\ hs[g].user = hs[h].user
        /\ Len(hs[g].rows) = 1 /\ hs[g].rows[1].ticker = <<"A">>
        /\ hs[g].rows[1].quantity = hs[h].qty

\* C10: a report line with cost 0 has profit percent 0, a report with
\* total_cost 0 has total profit percent 0, and no report divides by zero.
C10_ZeroCostGuard ==
    \A h \in Handlers :
        /\ hs[h].err # "ZeroDivisionError"
        /\ \A i \in 1..Len(hs[h].lines) :
              hs[h].lines[i].cost = 0 => hs[h].lines[i].profit_pct = 0
        /\ (hs[h].reply = "report" /\ hs[h].total_cost = 0) => hs[h].total_profit_pct = 0

C10_Witness ==
    \E h, g \in Handlers :
        /\ hs[h].reply = "report" /\ Len(hs[h].lines) = 2 /\ hs[h].total_cost = 0
        /\ hs[h].lines[1].cost # 0 /\ hs[h].lines[2].cost # 0
        /\ hs[h].total_value # 0
        /\ hs[g].reply = "report" /\ hs[g].lines[1].cost = 0 /\ hs[g].lines[1].value # 0
        /\ \E i \in 1..Len(hs[g].lines) : hs[g].lines[i].profit_pct # 0

====
